---- MODULE Spec2Model ----
(***************************************************************************)
(* A model of the ASKH backend (backend/main.py, backend/ingest.py):       *)
(* the markdown title extractor, the recursive file-tree builder, the      *)
(* document content loader with its path guard, the chat endpoint with     *)
(* its start-up state, and the ingestion run.                               *)
(*                                                                         *)
(* Python strings are sequences of one-character strings, so that strip,   *)
(* startswith, replace, split and the path functions are computed as       *)
(* Python computes them.  An optional value is <<>> (None) or <<v>>.       *)
(***************************************************************************)
EXTENDS Integers, Sequences, FiniteSets, TLC

VARIABLES
    md_file,        \* title extractor: the file handed to get_markdown_title
    title,          \* title extractor: <<>> before the call, <<result>> after
    tree_fs,        \* tree builder: the ./data directory, path -> entry
    docs_resp,      \* tree builder: response of the last GET /api/docs
    files,          \* content loader: absolute path -> entry
    req_path,       \* content loader: the path parameter of the last request
    content_resp,   \* content loader: response of the last request
    startup,        \* chat: "loading", "ready" or "failed"
    chat_engine,    \* chat: the module-level chat_engine, "None" or "engine"
    engine_calls,   \* chat: number of chat_engine.chat invocations so far
    chat_log,       \* chat: the responses of the requests served so far
    data_dir,       \* ingestion: the ./data directory read by the reader
    chroma_db,      \* ingestion: the persisted store, <<>> or <<documents>>
    last_run        \* ingestion: what the last ingest_data run saw and did

vars == <<md_file, title, tree_fs, docs_resp, files, req_path, content_resp,
          startup, chat_engine, engine_calls, chat_log,
          data_dir, chroma_db, last_run>>

title_vars   == <<md_file, title>>
tree_vars    == <<tree_fs, docs_resp>>
content_vars == <<files, req_path, content_resp>>
chat_vars    == <<startup, chat_engine, engine_calls, chat_log>>
ingest_vars  == <<data_dir, chroma_db, last_run>>

----------------------------------------------------------------------------
(* Python values *)

None    == <<>>
Some(v) == <<v>>

(* str.isspace characters that occur in the model *)
Whitespace == {" ", "\n", "\t"}

(* s.startswith(p) *)
StartsWith(s, p) ==
    /\ Len(p) <= Len(s)
    /\ SubSeq(s, 1, Len(p)) = p

(* s.endswith(p) *)
EndsWith(s, p) ==
    /\ Len(p) <= Len(s)
    /\ SubSeq(s, Len(s) - Len(p) + 1, Len(s)) = p

RECURSIVE LStrip(_, _)
LStrip(s, cs) ==
    IF s # <<>> /\ Head(s) \in cs THEN LStrip(Tail(s), cs) ELSE s

RECURSIVE RStrip(_, _)
RStrip(s, cs) ==
    IF s # <<>> /\ s[Len(s)] \in cs THEN RStrip(SubSeq(s, 1, Len(s) - 1), cs) ELSE s

(* s.strip(chars): every leading and trailing character of the set goes *)
StripChars(s, cs) == RStrip(LStrip(s, cs), cs)

(* s.strip() *)
Strip(s) == StripChars(s, Whitespace)

(* s.replace(old, new): every non-overlapping occurrence, left to right *)
RECURSIVE Replace(_, _, _)
Replace(s, old, new) ==
    IF s = <<>> THEN <<>>
    ELSE IF StartsWith(s, old)
         THEN new \o Replace(SubSeq(s, Len(old) + 1, Len(s)), old, new)
         ELSE <<Head(s)>> \o Replace(Tail(s), old, new)

(* index of the first occurrence of sep in s at or after position i, 0 if none *)
RECURSIVE Find(_, _, _)
Find(s, sep, i) ==
    IF i + Len(sep) - 1 > Len(s) THEN 0
    ELSE IF SubSeq(s, i, i + Len(sep) - 1) = sep THEN i
    ELSE Find(s, sep, i + 1)

(* s.split(sep, maxsplit); maxsplit = -1 splits at every occurrence *)
RECURSIVE Split(_, _, _)
Split(s, sep, maxsplit) ==
    LET at == Find(s, sep, 1) IN
    IF maxsplit = 0 \/ at = 0 THEN <<s>>
    ELSE <<SubSeq(s, 1, at - 1)>>
         \o Split(SubSeq(s, at + Len(sep), Len(s)), sep, maxsplit - 1)

(* sep.join(parts) *)
RECURSIVE Join(_, _)
Join(parts, sep) ==
    IF parts = <<>> THEN <<>>
    ELSE IF Len(parts) = 1 THEN parts[1]
    ELSE parts[1] \o sep \o Join(Tail(parts), sep)

(* s[n:] *)
Drop(s, n) == IF n >= Len(s) THEN <<>> ELSE SubSeq(s, n + 1, Len(s))

(* concatenation of a sequence of strings *)
Concat(parts) == Join(parts, <<>>)

----------------------------------------------------------------------------
(* String literals of the source *)

s_dashes == <<"-", "-", "-">>
s_title  == <<"t", "i", "t", "l", "e", ":">>
s_hash   == <<"#", " ">>
s_md     == <<".", "m", "d">>
s_dot    == <<".">>
s_slash  == <<"/">>
s_data   == <<".", "/", "d", "a", "t", "a">>

----------------------------------------------------------------------------
(* Title extractor: get_markdown_title *)

(* the first line of the frontmatter block that starts with "title:",      *)
(* scanning from line i up to the closing delimiter; 0 if there is none    *)
RECURSIVE FrontmatterTitleLine(_, _)
FrontmatterTitleLine(ls, i) ==
    IF i > Len(ls) THEN 0
    ELSE IF Strip(ls[i]) = s_dashes THEN 0
    ELSE IF StartsWith(ls[i], s_title) THEN i
    ELSE FrontmatterTitleLine(ls, i + 1)

(* the first line whose stripped form starts with "# "; 0 if there is none *)
RECURSIVE HeadingLine(_, _)
HeadingLine(ls, i) ==
    IF i > Len(ls) THEN 0
    ELSE IF StartsWith(Strip(ls[i]), s_hash) THEN i
    ELSE HeadingLine(ls, i + 1)

(* line.replace("title:", "").strip().strip('"').strip("'") *)
TitleValue(line) ==
    StripChars(StripChars(Strip(Replace(line, s_title, <<>>)), {"\""}), {"'"})

(* line.strip().replace("# ", "").strip() *)
HeadingValue(line) == Strip(Replace(Strip(line), s_hash, <<>>))

get_markdown_title(f) ==
    IF ~f.readable THEN None        \* open/readlines raised: caught, None
    ELSE
    LET ls == f.lines
        fm == IF Len(ls) > 0 /\ Strip(ls[1]) = s_dashes
              THEN FrontmatterTitleLine(ls, 2) ELSE 0
        hd == HeadingLine(ls, 1)
    IN  IF fm # 0 THEN Some(TitleValue(ls[fm]))
        ELSE IF hd # 0 THEN Some(HeadingValue(ls[hd]))
        ELSE None

----------------------------------------------------------------------------
(* Bounds of the title-extractor inputs *)

MaxLines == 4

(* the lines a file is made of, as readlines() returns them *)
LinePool == {
    <<"-", "-", "-", "\n">>,
    <<"\n">>,
    <<"t", "i", "t", "l", "e", ":", " ", "X", "\n">>,
    <<"t", "i", "t", "l", "e", ":", " ", "\"", "'", "X", "'", "\"", "\n">>,
    <<"t", "i", "t", "l", "e", ":", " ", "A", " ", "t", "i", "t", "l", "e", ":", " ", "B", "\n">>,
    <<"#", " ", "H", "\n">>,
    <<"#", " ", "C", "#", " ", "D", "\n">>,
    <<" ", "x", "\n">> }

SeqsUpTo(S, n) == UNION { [1..k -> S] : k \in 0..n }

MdFiles ==
    { [readable |-> TRUE, lines |-> ls] : ls \in SeqsUpTo(LinePool, MaxLines) }
    \cup { [readable |-> FALSE, lines |-> <<>>] }

(* one call of get_markdown_title on the file *)
ExtractTitle ==
    /\ title = <<>>
    /\ title' = <<get_markdown_title(md_file)>>
    /\ UNCHANGED md_file

----------------------------------------------------------------------------
(* os.path (POSIX) as the handlers use it *)

s_dotdot == <<".", ".">>

(* the working directory of the server process *)
cwd == <<"/", "a", "p", "p">>

(* os.path.join(a, b) *)
PathJoin(a, b) ==
    IF StartsWith(b, s_slash) THEN b
    ELSE IF a = <<>> \/ EndsWith(a, s_slash) THEN a \o b
    ELSE a \o s_slash \o b

(* the loop of normpath over the components: "" and "." are dropped, ".."  *)
(* pops a component unless there is none to pop in a relative path         *)
RECURSIVE NormComps(_, _, _)
NormComps(comps, acc, rooted) ==
    IF comps = <<>> THEN acc
    ELSE LET c == Head(comps) IN
         IF c = <<>> \/ c = s_dot THEN NormComps(Tail(comps), acc, rooted)
         ELSE IF \/ c # s_dotdot
                 \/ (~rooted /\ acc = <<>>)
                 \/ (acc # <<>> /\ acc[Len(acc)] = s_dotdot)
              THEN NormComps(Tail(comps), Append(acc, c), rooted)
         ELSE IF acc # <<>>
              THEN NormComps(Tail(comps), SubSeq(acc, 1, Len(acc) - 1), rooted)
         ELSE NormComps(Tail(comps), acc, rooted)

(* os.path.normpath(path) *)
NormPath(path) ==
    IF path = <<>> THEN s_dot
    ELSE LET rooted == StartsWith(path, s_slash)
             slashes == IF ~rooted THEN <<>>
                        ELSE IF StartsWith(path, <<"/", "/">>)
                                /\ ~StartsWith(path, <<"/", "/", "/">>)
                             THEN <<"/", "/">>
                        ELSE s_slash
             out == slashes \o Join(NormComps(Split(path, s_slash, -1), <<>>, rooted), s_slash)
         IN  IF out = <<>> THEN s_dot ELSE out

(* os.path.abspath(path) *)
AbsPath(path) ==
    NormPath(IF StartsWith(path, s_slash) THEN path ELSE PathJoin(cwd, path))

(* the non-empty components of a path *)
Comps(path) == SelectSeq(Split(path, s_slash, -1), LAMBDA c : c # <<>>)

RECURSIVE CommonPrefixLen(_, _)
CommonPrefixLen(a, b) ==
    IF a = <<>> \/ b = <<>> \/ Head(a) # Head(b) THEN 0
    ELSE 1 + CommonPrefixLen(Tail(a), Tail(b))

(* os.path.relpath(path, start) *)
RelPath(path, start) ==
    LET start_list == Comps(AbsPath(start))
        path_list  == Comps(AbsPath(path))
        i   == CommonPrefixLen(start_list, path_list)
        rel == [k \in 1..(Len(start_list) - i) |-> s_dotdot]
               \o SubSeq(path_list, i + 1, Len(path_list))
    IN  IF rel = <<>> THEN s_dot ELSE Join(rel, s_slash)

----------------------------------------------------------------------------
(* File tree builder: build_file_tree, get_docs_structure *)

(* code points of the characters of the file names *)
Ord == [c \in {".", "B", "a", "d", "m", "n", "s", "t", "x"} |->
          CASE c = "." -> 46 [] c = "B" -> 66 [] c = "a" -> 97
            [] c = "d" -> 100 [] c = "m" -> 109 [] c = "n" -> 110
            [] c = "s" -> 115 [] c = "t" -> 116 [] c = "x" -> 120]

(* a < b for Python strings: by code point, a proper prefix first *)
RECURSIVE StrLess(_, _)
StrLess(a, b) ==
    IF b = <<>> THEN FALSE
    ELSE IF a = <<>> THEN TRUE
    ELSE IF Head(a) # Head(b) THEN Ord[Head(a)] < Ord[Head(b)]
    ELSE StrLess(Tail(a), Tail(b))

(* insertion of x into a sorted list *)
RECURSIVE Insert(_, _)
Insert(x, sq) ==
    IF sq = <<>> THEN <<x>>
    ELSE IF StrLess(x, Head(sq)) THEN <<x>> \o sq
    ELSE <<Head(sq)>> \o Insert(x, Tail(sq))

RECURSIVE SortedFrom(_, _)
SortedFrom(sq, acc) ==
    IF sq = <<>> THEN acc ELSE SortedFrom(Tail(sq), Insert(Head(sq), acc))

sorted_unsorted(sq) == sq

(* sorted(list of str) *)
sorted(sq) == SortedFrom(sq, <<>>)

(* the names in a directory, in the order the file system hands them out *)
RECURSIVE InDirOrder(_)
InDirOrder(S) ==
    IF S = {} THEN <<>>
    ELSE LET x == CHOOSE y \in S : TRUE IN <<x>> \o InDirOrder(S \ {x})

ChildNames(fs, path) ==
    { p[Len(p)] : p \in { q \in DOMAIN fs : Len(q) = Len(path) + 1
                                       /\ SubSeq(q, 1, Len(path)) = path } }

(* os.listdir(root_path): the names, or the error it raises *)
listdir(fs, path) ==
    IF path \notin DOMAIN fs \/ fs[path].list = "gone"
    THEN [raised |-> "FileNotFoundError", names |-> <<>>]
    ELSE IF fs[path].kind # "dir"
    THEN [raised |-> "NotADirectoryError", names |-> <<>>]
    ELSE IF fs[path].list = "denied"
    THEN [raised |-> "PermissionError", names |-> <<>>]
    ELSE [raised |-> "", names |-> InDirOrder(ChildNames(fs, path))]

(* os.path.isdir(full_path) *)
isdir(fs, path) == path \in DOMAIN fs /\ fs[path].kind = "dir"

(* root_path joined with the items below it, as build_file_tree builds it *)
RECURSIVE FullPath(_)
FullPath(path) ==
    IF path = <<>> THEN s_data
    ELSE PathJoin(FullPath(SubSeq(path, 1, Len(path) - 1)), path[Len(path)])

(* item.startswith('.') *)
is_hidden(item) == StartsWith(item, s_dot)

(* item.replace(".md", "") *)
FilenameFallback(item) == Replace(item, s_md, <<>>)

(* custom_title if custom_title else item.replace(".md", "") *)
DisplayName(custom_title, item) ==
    IF custom_title # None /\ custom_title[1] # <<>>
    THEN custom_title[1] ELSE FilenameFallback(item)

FolderNode(item, children) ==
    [name |-> item, type |-> "folder", children |-> children,
     displayName |-> <<>>, path |-> <<>>]

FileNode(item, custom_title, full_path) ==
    [name |-> item, type |-> "file", children |-> <<>>,
     displayName |-> DisplayName(custom_title, item),
     path |-> Replace(RelPath(full_path, s_data), <<"\\">>, s_slash)]

(* build_file_tree(root_path): [raised, tree]; an error raised by a        *)
(* recursive call leaves the loop and propagates to the caller             *)
RECURSIVE build_file_tree(_, _), TreeLoop(_, _, _, _)
build_file_tree(fs, path) ==
    LET ls == listdir(fs, path) IN
    IF ls.raised = "FileNotFoundError" THEN [raised |-> "", tree |-> <<>>]
    ELSE IF ls.raised # "" THEN [raised |-> ls.raised, tree |-> <<>>]
    ELSE TreeLoop(fs, path, sorted(ls.names), <<>>)

TreeLoop(fs, path, items, tree) ==
    IF items = <<>> THEN [raised |-> "", tree |-> tree]
    ELSE LET item == Head(items)
             full == Append(path, item)
         IN  IF is_hidden(item) THEN TreeLoop(fs, path, Tail(items), tree)
             ELSE IF isdir(fs, full)
             THEN LET sub == build_file_tree(fs, full) IN
                  IF sub.raised # "" THEN sub
                  ELSE TreeLoop(fs, path, Tail(items),
                                Append(tree, FolderNode(item, sub.tree)))
             ELSE IF EndsWith(item, s_md)
             THEN TreeLoop(fs, path, Tail(items),
                           Append(tree, FileNode(item, get_markdown_title(fs[full].file),
                                                 FullPath(full))))
             ELSE TreeLoop(fs, path, Tail(items), tree)

(* GET /api/docs: an uncaught exception is answered with status 500 *)
get_docs_structure(fs) ==
    IF <<>> \notin DOMAIN fs THEN [status |-> 200, body |-> <<>>]
    ELSE LET r == build_file_tree(fs, <<>>) IN
         IF r.raised # "" THEN [status |-> 500, body |-> <<>>]
         ELSE [status |-> 200, body |-> r.tree]

----------------------------------------------------------------------------
(* The ./data directory the tree builder walks *)

(* the directories and files of ./data, ./data itself included *)
MaxEntries == 3

NamePool == {
    <<"a", ".", "m", "d">>,
    <<"B", ".", "m", "d", "x", ".", "m", "d">>,
    <<".", "x", ".", "m", "d">>,
    <<"n", ".", "t", "x", "t">>,
    <<"s">> }

Unreadable == [readable |-> FALSE, lines |-> <<>>]

TreeFilePool == {
    [readable |-> TRUE, lines |-> << <<"#", " ", "H", "\n">> >>],
    [readable |-> TRUE, lines |-> << <<" ", "x", "\n">> >>],
    Unreadable }

DirEntry(list)  == [kind |-> "dir", list |-> list, file |-> Unreadable]
FileEntry(file) == [kind |-> "file", list |-> "ok", file |-> file]

NoFs == [p \in {} |-> DirEntry("ok")]

Extend(fs, path, entry) ==
    [p \in DOMAIN fs \cup {path} |-> IF p = path THEN entry ELSE fs[p]]

(* a place for a new entry: ./data itself, or a name in a listable directory *)
FreePlaces(fs) ==
    IF <<>> \notin DOMAIN fs THEN {<<>>}
    ELSE { Append(d, n) : d \in { q \in DOMAIN fs : /\ fs[q].kind = "dir"
                                                    /\ fs[q].list # "gone" },
                          n \in NamePool } \ DOMAIN fs

MakeDir ==
    \E p \in FreePlaces(tree_fs) :
        /\ Cardinality(DOMAIN tree_fs) < MaxEntries
        /\ tree_fs' = Extend(tree_fs, p, DirEntry("ok"))
        /\ docs_resp' = <<>>

WriteFile ==
    \E p \in FreePlaces(tree_fs) \ {<<>>}, f \in TreeFilePool :
        /\ Cardinality(DOMAIN tree_fs) < MaxEntries
        /\ tree_fs' = Extend(tree_fs, p, FileEntry(f))
        /\ docs_resp' = <<>>

(* a directory loses its read permission, or is removed by another process *)
(* between its parent's listing and its own                                *)
MakeUnlistable ==
    \E p \in DOMAIN tree_fs, how \in {"denied", "gone"} :
        /\ tree_fs[p].kind = "dir" /\ tree_fs[p].list = "ok"
        /\ how = "gone" => ChildNames(tree_fs, p) = {}
        /\ tree_fs' = [tree_fs EXCEPT ![p].list = how]
        /\ docs_resp' = <<>>

(* GET /api/docs *)
GetDocsStructure ==
    /\ docs_resp = <<>>
    /\ docs_resp' = <<get_docs_structure(tree_fs)>>
    /\ UNCHANGED tree_fs

----------------------------------------------------------------------------
(* Content loader: get_doc_content *)

(* os.path.exists(p) and os.path.isfile(p), p relative to the working directory *)
isfile(fs, p) == AbsPath(p) \in DOMAIN fs /\ fs[AbsPath(p)].kind = "file"

FrontmatterParts_unlimited(content) == Split(content, s_dashes, -1)

(* content.split("---", 2) *)
FrontmatterParts(content) == Split(content, s_dashes, 2)

(* the body the handler answers with for the text of a file *)
ContentOf(content) ==
    IF StartsWith(content, s_dashes) /\ Len(FrontmatterParts(content)) >= 3
    THEN Strip(FrontmatterParts(content)[3])
    ELSE content

(* the security check: abs_target_path.startswith(abs_data_path) *)
PassesGuard(safe_path) == StartsWith(AbsPath(safe_path), AbsPath(s_data))

(* GET /api/docs/content?path=... *)
get_doc_content(fs, path) ==
    LET safe_path == NormPath(PathJoin(s_data, path)) IN
    IF ~PassesGuard(safe_path) THEN [status |-> 403, content |-> <<>>]
    ELSE IF isfile(fs, safe_path)
    THEN [status |-> 200, content |-> ContentOf(fs[AbsPath(safe_path)].text)]
    ELSE [status |-> 404, content |-> <<>>]

GetDocContent(path) ==
    /\ content_resp = <<>>
    /\ req_path' = path
    /\ content_resp' = <<get_doc_content(files, path)>>
    /\ UNCHANGED files

Dir        == [kind |-> "dir", text |-> <<>>]
File(text) == [kind |-> "file", text |-> text]

p_data    == <<"/", "a", "p", "p", "/", "d", "a", "t", "a">>
p_a_md    == p_data \o <<"/", "a", ".", "m", "d">>
p_sub     == p_data \o <<"/", "s">>
p_backup  == <<"/", "a", "p", "p", "/", "d", "a", "t", "a", "_", "b", "a", "c", "k", "u", "p">>
p_x_md    == p_backup \o <<"/", "x", ".", "m", "d">>
p_etc     == <<"/", "e", "t", "c">>
p_passwd  == p_etc \o <<"/", "p", "a", "s", "s", "w", "d">>

t_body    == <<"B", "o", "d", "y", " ", "t", "e", "x", "t">>
t_secret  == <<"r", "o", "o", "t", ":", "x">>

(* the path guard: a fixed file system, every request path of the bound *)

MaxSegs == 4

SegPool == {
    s_dotdot,
    <<"d", "a", "t", "a">>,
    <<"a", ".", "m", "d">>,
    <<"d", "a", "t", "a", "_", "b", "a", "c", "k", "u", "p">>,
    <<"x", ".", "m", "d">>,
    <<"e", "t", "c">>,
    <<"p", "a", "s", "s", "w", "d">> }

GuardPaths ==
    { lead \o Join(segs, s_slash) :
        lead \in {<<>>, s_slash}, segs \in SeqsUpTo(SegPool, MaxSegs) }

GuardFiles(with_backup) ==
    LET present == {p_data, p_a_md, p_sub, p_etc, p_passwd}
                   \cup (IF with_backup THEN {p_backup, p_x_md} ELSE {})
    IN  [p \in present |->
           IF p = p_a_md THEN File(t_body)
           ELSE IF p \in {p_x_md, p_passwd} THEN File(t_secret)
           ELSE Dir]

GuardRequest == \E path \in GuardPaths : GetDocContent(path)

(* frontmatter stripping: every text of the bound in ./data/a.md *)

MaxTokens == 5

TokenPool == {
    s_dashes,
    <<"-">>,
    <<"\n">>,
    <<"\n", "t", "i", "t", "l", "e", ":", " ", "X", "\n">>,
    t_body }

Texts == { Concat(ts) : ts \in SeqsUpTo(TokenPool, MaxTokens) }

ContentFiles(text) ==
    [p \in {p_data, p_a_md, p_sub} |-> IF p = p_a_md THEN File(text) ELSE Dir]

ContentPaths == {
    <<"a", ".", "m", "d">>,
    <<".", "/", "s", "/", ".", ".", "/", "a", ".", "m", "d">>,
    <<"s">>,
    <<"b", ".", "m", "d">> }

ContentRequest == \E path \in ContentPaths : GetDocContent(path)

----------------------------------------------------------------------------
(* Chat service: the module start-up and the request handlers *)

MaxRequests == 3

Messages == {"m1", "m2"}

(* the try block of the module: the collection opened, chat_engine built *)
LoadKnowledgeBase ==
    /\ startup = "loading"
    /\ startup' = "ready"
    /\ chat_engine' = "engine"
    /\ UNCHANGED <<engine_calls, chat_log>>

(* the except block of the module: index = None, chat_engine = None *)
LoadFails ==
    /\ startup = "loading"
    /\ startup' = "failed"
    /\ chat_engine' = "None"
    /\ UNCHANGED <<engine_calls, chat_log>>

Serving == startup # "loading" /\ Len(chat_log) < MaxRequests

(* without the guard the call is made on None and its AttributeError is    *)
(* answered by the except branch                                           *)
chat_endpoint_unguarded(engine, outcome) ==
    IF engine = "None" THEN [status |-> 500, called |-> 0]
    ELSE IF outcome = "answers" THEN [status |-> 200, called |-> 1]
    ELSE [status |-> 500, called |-> 1]

(* chat_endpoint(req): the status answered and the calls of                *)
(* chat_engine.chat made, for the outcome of the external engine           *)
chat_endpoint(engine, outcome) ==
    IF engine = "None" THEN [status |-> 503, called |-> 0]
    ELSE IF outcome = "answers" THEN [status |-> 200, called |-> 1]
    ELSE [status |-> 500, called |-> 1]

(* POST /api/chat *)
ChatEndpoint ==
    \E msg \in Messages, outcome \in {"answers", "raises"} :
        LET r == chat_endpoint(chat_engine, outcome) IN
        /\ Serving
        /\ engine_calls' = engine_calls + r.called
        /\ chat_log' = Append(chat_log, [endpoint |-> "chat", status |-> r.status])
        /\ UNCHANGED <<startup, chat_engine>>

(* GET / *)
ReadRoot ==
    /\ Serving
    /\ chat_log' = Append(chat_log, [endpoint |-> "root", status |-> 200])
    /\ UNCHANGED <<startup, chat_engine, engine_calls>>

(* GET /api/docs and GET /api/docs/content: neither reads nor writes       *)
(* chat_engine; their answers are modelled by the tree and content parts   *)
DocsEndpoints ==
    \E status \in {200, 403, 404, 500} :
        /\ Serving
        /\ chat_log' = Append(chat_log, [endpoint |-> "docs", status |-> status])
        /\ UNCHANGED <<startup, chat_engine, engine_calls>>

----------------------------------------------------------------------------
(* Ingestion: ingest_data *)

MaxFiles == 2

FileIds == 1..MaxFiles

(* a file of ./data: one of two versions of its text, or unreadable *)
FileStates == {"v1", "v2", "unreadable"}

(* the documents of a directory listing: one per readable file *)
Documents(listing) ==
    { <<f, listing[f]>> : f \in { g \in DOMAIN listing : listing[g] # "unreadable" } }

NoFiles == [f \in {} |-> "v1"]

MakeDataDir ==
    /\ data_dir = None
    /\ data_dir' = Some(NoFiles)
    /\ UNCHANGED <<chroma_db, last_run>>

RemoveDataDir ==
    /\ data_dir # None
    /\ data_dir' = None
    /\ UNCHANGED <<chroma_db, last_run>>

PutFile ==
    \E f \in FileIds, st \in FileStates :
        /\ data_dir # None
        /\ data_dir' = Some([g \in DOMAIN data_dir[1] \cup {f} |->
                               IF g = f THEN st ELSE data_dir[1][g]])
        /\ UNCHANGED <<chroma_db, last_run>>

DeleteFile ==
    \E f \in FileIds :
        /\ data_dir # None /\ f \in DOMAIN data_dir[1]
        /\ data_dir' = Some([g \in DOMAIN data_dir[1] \ {f} |-> data_dir[1][g]])
        /\ UNCHANGED <<chroma_db, last_run>>

rmtree_skipped(db) == db

(* if os.path.exists("./chroma_db"): shutil.rmtree("./chroma_db") *)
rmtree(db) == None

(* PersistentClient(path).get_or_create_collection: the collection on disk *)
get_or_create_collection(db) == IF db = None THEN Some({}) ELSE db

(* SimpleDirectoryReader("./data", recursive=True).load_data(): the reader *)
(* raises ValueError for a missing directory and for one without files; a  *)
(* file it cannot read is skipped                                          *)
load_data(dir) ==
    IF dir = None \/ DOMAIN dir[1] = {}
    THEN [raised |-> TRUE, documents |-> {}]
    ELSE [raised |-> FALSE, documents |-> Documents(dir[1])]

Run(outcome, documents, prior, indexed) ==
    Some([outcome |-> outcome, documents |-> documents, prior |-> prior,
          data_existed |-> data_dir # None,
          listing |-> IF data_dir = None THEN NoFiles ELSE data_dir[1],
          index_called |-> indexed])

(* one run of ingest_data, from the clean-up to its return or its error *)
IngestData ==
    LET prior == IF chroma_db = None THEN {} ELSE chroma_db[1]
        fresh == get_or_create_collection(rmtree(chroma_db))
        read  == load_data(data_dir)
    IN  /\ UNCHANGED data_dir
        /\ \/ /\ read.raised
              /\ chroma_db' = fresh
              /\ last_run' = Run("raised", {}, prior, FALSE)
           \/ /\ ~read.raised /\ read.documents = {}
              /\ chroma_db' = fresh
              /\ last_run' = Run("no_documents", {}, prior, FALSE)
           \/ /\ ~read.raised /\ read.documents # {}
              /\ chroma_db' = Some(fresh[1] \cup read.documents)
              /\ last_run' = Run("indexed", read.documents, prior, TRUE)
           \/ \* the external embedding call fails part-way through
              /\ ~read.raised /\ read.documents # {}
              /\ \E done \in SUBSET read.documents :
                    /\ done # read.documents
                    /\ chroma_db' = Some(fresh[1] \cup done)
              /\ last_run' = Run("raised", read.documents, prior, TRUE)

----------------------------------------------------------------------------
(* Claims about the title extractor (specification SpecTitle) *)

(* what the claims call the frontmatter title line: the first non-empty    *)
(* line is the --- delimiter, and a line before the closing --- starts     *)
(* with "title:"; 0 if the file has none                                   *)
RECURSIVE FirstNonEmpty(_, _)
FirstNonEmpty(ls, i) ==
    IF i > Len(ls) THEN 0
    ELSE IF Strip(ls[i]) # <<>> THEN i
    ELSE FirstNonEmpty(ls, i + 1)

ClaimedTitleLine(ls) ==
    LET open == FirstNonEmpty(ls, 1) IN
    IF open = 0 \/ Strip(ls[open]) # s_dashes THEN 0
    ELSE LET block == { k \in (open + 1)..Len(ls) :
                          \A j \in (open + 1)..k : Strip(ls[j]) # s_dashes }
             hits  == { k \in block : StartsWith(ls[k], s_title) }
         IN  IF hits = {} THEN 0
             ELSE CHOOSE k \in hits : \A h \in hits : k <= h

(* exactly one layer of surrounding single or double quotes removed *)
Unquoted(v) ==
    IF Len(v) >= 2 /\ v[1] = v[Len(v)] /\ v[1] \in {"\"", "'"}
    THEN SubSeq(v, 2, Len(v) - 1) ELSE v

(* the text after the "title:" prefix, stripped, one quote layer removed *)
ClaimedTitle(line) == Unquoted(Strip(Drop(line, Len(s_title))))

IsHeading(line) == StartsWith(Strip(line), s_hash)

(* the remainder of the line after the leading "# " marker, stripped *)
ClaimedHeading(line) == Strip(Drop(Strip(line), Len(s_hash)))

(* C5: a file whose first non-empty line is --- and whose frontmatter      *)
(* block has a "title:" line gets the text after the prefix of the first   *)
(* such line, stripped, with exactly one layer of quotes removed, whatever *)
(* headings the body has.                                                  *)
C5_FrontmatterTitle ==
    (title # <<>> /\ md_file.readable /\ ClaimedTitleLine(md_file.lines) # 0)
    => title[1] = Some(ClaimedTitle(md_file.lines[ClaimedTitleLine(md_file.lines)]))

(* C8: a file with no frontmatter title gets, for the first line whose     *)
(* stripped form starts with "# ", the remainder of that line after the    *)
(* leading marker, stripped; a later "# " in the heading text is kept.     *)
C8_HeadingTitle ==
    (/\ title # <<>> /\ md_file.readable
     /\ ClaimedTitleLine(md_file.lines) = 0
     /\ \E i \in 1..Len(md_file.lines) : IsHeading(md_file.lines[i]))
    => LET first == CHOOSE i \in 1..Len(md_file.lines) :
                       /\ IsHeading(md_file.lines[i])
                       /\ \A j \in 1..(i - 1) : ~IsHeading(md_file.lines[j])
       IN  title[1] = Some(ClaimedHeading(md_file.lines[first]))

----------------------------------------------------------------------------
(* Claims about the tree builder (specification SpecTree) *)

(* every node of a tree with the path of the entry it stands for *)
RECURSIVE NodesOf(_, _)
NodesOf(tree, prefix) ==
    UNION { {[at |-> Append(prefix, tree[i].name), node |-> tree[i]]}
            \cup NodesOf(tree[i].children, Append(prefix, tree[i].name))
            : i \in 1..Len(tree) }

Responded == docs_resp # <<>>

(* the entries of a directory the claim wants in the tree *)
Wanted(fs, path) ==
    { n \in ChildNames(fs, path) :
        /\ n[1] # "."
        /\ \/ fs[Append(path, n)].kind = "dir"
           \/ EndsWith(n, <<".", "m", "d">>) }

RECURSIVE ListsExactly(_, _, _)
ListsExactly(fs, path, tree) ==
    /\ Len(tree) = Cardinality(Wanted(fs, path))
    /\ { tree[i].name : i \in 1..Len(tree) } = Wanted(fs, path)
    /\ \A i \in 1..(Len(tree) - 1) : StrLess(tree[i].name, tree[i + 1].name)
    /\ \A i \in 1..Len(tree) :
          IF fs[Append(path, tree[i].name)].kind = "dir"
          THEN /\ tree[i].type = "folder"
               /\ ListsExactly(fs, Append(path, tree[i].name), tree[i].children)
          ELSE tree[i].type = "file"

(* no directory of ./data refuses to be listed *)
AllListable(fs) == \A p \in DOMAIN fs : fs[p].list # "denied"

(* C4: build_file_tree returns, for a directory, exactly one node per      *)
(* entry whose name does not start with "." and which is a directory       *)
(* (folder node, children built the same way) or a file whose name ends    *)
(* in ".md" (file node); nothing else, and at every level in code-point    *)
(* order of the raw names.  The tree is returned whenever every directory  *)
(* can be listed, and every tree that is returned has this shape.          *)
C4_TreeListsEntries ==
    (Responded /\ <<>> \in DOMAIN tree_fs)
    => /\ AllListable(tree_fs) => docs_resp[1].status = 200
       /\ docs_resp[1].status = 200
          => ListsExactly(tree_fs, <<>>, docs_resp[1].body)

(* two sibling files came back, the upper-case name first *)
C4_Witness ==
    /\ Responded /\ docs_resp[1].status = 200
    /\ Len(docs_resp[1].body) = 2
    /\ docs_resp[1].body[1].name[1] = "B"
    /\ docs_resp[1].body[2].name[1] = "a"

HasNeither(f) ==
    /\ f.readable
    /\ ClaimedTitleLine(f.lines) = 0
    /\ \A i \in 1..Len(f.lines) : ~IsHeading(f.lines[i])

(* C7: a .md file with neither a frontmatter title nor a "# " heading has  *)
(* title None and a file node whose displayName is the filename with only  *)
(* its trailing ".md" removed.                                             *)
C7_FilenameFallback ==
    Responded =>
      \A n \in NodesOf(docs_resp[1].body, <<>>) :
         (n.node.type = "file" /\ HasNeither(tree_fs[n.at].file))
         => /\ get_markdown_title(tree_fs[n.at].file) = None
            /\ n.node.displayName = SubSeq(n.node.name, 1, Len(n.node.name) - 3)

(* C10: an unlistable directory gives an empty subtree, an unreadable file *)
(* the filename fallback, and the request does not fail.                   *)
C10_TraversalErrorsSwallowed ==
    Responded =>
      /\ docs_resp[1].status = 200
      /\ \A n \in NodesOf(docs_resp[1].body, <<>>) :
            /\ (n.node.type = "folder" /\ tree_fs[n.at].list # "ok")
               => n.node.children = <<>>
            /\ (n.node.type = "file" /\ ~tree_fs[n.at].file.readable)
               => n.node.displayName = FilenameFallback(n.node.name)

----------------------------------------------------------------------------
(* Claims about the content loader (specifications SpecGuard, SpecContent) *)

Answered == content_resp # <<>>

(* the normalized target of a request: the data root joined with the path, *)
(* ".." resolved, made absolute                                            *)
Target(path) == AbsPath(PathJoin(s_data, path))

(* the target is the data root directory or lies below it *)
Inside(path) ==
    LET root == Comps(AbsPath(s_data))
        tgt  == Comps(Target(path))
    IN  Len(tgt) >= Len(root) /\ SubSeq(tgt, 1, Len(root)) = root

(* C1: a request whose normalized target lies outside the data root fails  *)
(* with 403 and returns no file content, a sibling directory whose name    *)
(* merely starts with the data root's name included.                       *)
C1_TraversalForbidden ==
    (Answered /\ ~Inside(req_path))
    => content_resp[1] = [status |-> 403, content |-> <<>>]

(* the position of the second "---" of a text that begins with "---", 0 if none *)
SecondDelimiter(text) ==
    LET at == { i \in 4..(Len(text) - 2) : <<text[i], text[i + 1], text[i + 2]>> = s_dashes }
    IN  IF at = {} THEN 0 ELSE CHOOSE i \in at : \A j \in at : i <= j

BeginsWithDelimiter(text) ==
    Len(text) >= 3 /\ <<text[1], text[2], text[3]>> = s_dashes

(* what the claim says the answer to a file's text is *)
ClaimedContent(text) ==
    IF BeginsWithDelimiter(text) /\ SecondDelimiter(text) # 0
    THEN Strip(Drop(text, SecondDelimiter(text) + 2))
    ELSE text

(* C6: an existing regular file under the data root is answered with the   *)
(* text after its second "---", trimmed, when it begins with "---" and has *)
(* a second one; with the unchanged text otherwise.  The request never     *)
(* fails on malformed frontmatter.                                         *)
C6_FrontmatterStripped ==
    (/\ Answered /\ Inside(req_path)
     /\ Target(req_path) \in DOMAIN files
     /\ files[Target(req_path)].kind = "file")
    => content_resp[1] =
         [status |-> 200, content |-> ClaimedContent(files[Target(req_path)].text)]

(* "---\ntitle: X\n---\nBody text" was answered with "Body text" *)
C6_Witness ==
    /\ Answered
    /\ files[p_a_md].text =
         s_dashes \o <<"\n", "t", "i", "t", "l", "e", ":", " ", "X", "\n">>
         \o s_dashes \o <<"\n">> \o t_body
    /\ Target(req_path) = p_a_md
    /\ content_resp[1] = [status |-> 200, content |-> t_body]

----------------------------------------------------------------------------
(* Claims about the chat service (specification SpecChat) *)

(* C2: after a failed start-up every chat request is answered 503, no      *)
(* handler reassigns chat_engine, and the external engine is never called. *)
C2_DegradedStays503 ==
    startup = "failed"
    => /\ chat_engine = "None"
       /\ engine_calls = 0
       /\ \A i \in 1..Len(chat_log) :
             chat_log[i].endpoint = "chat" => chat_log[i].status = 503

(* two chat requests with another request between them, after a failed start-up *)
C2_Witness ==
    /\ startup = "failed"
    /\ Len(chat_log) = 3
    /\ chat_log[1].endpoint = "chat"
    /\ chat_log[2].endpoint # "chat"
    /\ chat_log[3].endpoint = "chat"

----------------------------------------------------------------------------
(* Claims about ingestion (specification SpecIngest) *)

(* the documents of the files present in a listing, readable or not *)
Present(listing) == { <<f, listing[f]>> : f \in DOMAIN listing }

(* C3: once a run over a non-empty data directory has completed, the       *)
(* store holds only documents of that run's data directory; the documents  *)
(* of earlier runs that are no longer there are gone.                      *)
C3_StoreReplaced ==
    (last_run # None /\ last_run[1].outcome = "indexed")
    => /\ chroma_db # None
       /\ chroma_db[1] \subseteq Present(last_run[1].listing)
       /\ chroma_db[1] = last_run[1].documents

(* a run indexed a directory from which a document of the prior store was gone *)
C3_Witness ==
    /\ last_run # None /\ last_run[1].outcome = "indexed"
    /\ \E d \in last_run[1].prior : d \notin Present(last_run[1].listing)
    /\ chroma_db # None /\ chroma_db[1] # {}

(* C9: with the data directory missing or yielding no readable document,   *)
(* ingest_data returns normally, without calling the index construction,   *)
(* after deleting the prior store and recreating the empty collection.     *)
C9_EmptyCorpusReturns ==
    (/\ last_run # None
     /\ \/ ~last_run[1].data_existed
        \/ Documents(last_run[1].listing) = {})
    => /\ last_run[1].outcome = "no_documents"
       /\ ~last_run[1].index_called
       /\ chroma_db = Some({})

----------------------------------------------------------------------------
(* Specifications: one per part of the program, the other parts idle *)

(* the title extractor applied to every file of the bound *)
InitTitle ==
    /\ md_file \in MdFiles
    /\ title = <<>>
    /\ tree_fs = NoFs
    /\ docs_resp = <<>>
    /\ files = NoFs
    /\ req_path = <<>>
    /\ content_resp = <<>>
    /\ startup = "loading"
    /\ chat_engine = "unset"
    /\ engine_calls = 0
    /\ chat_log = <<>>
    /\ data_dir = None
    /\ chroma_db = None
    /\ last_run = None

NextTitle ==
    \/ ExtractTitle /\ UNCHANGED <<tree_vars, content_vars, chat_vars, ingest_vars>>

SpecTitle == InitTitle /\ [][NextTitle]_vars

(* GET /api/docs over every ./data directory of the bound *)
InitTree ==
    /\ md_file = Unreadable
    /\ title = <<>>
    /\ tree_fs = NoFs
    /\ docs_resp = <<>>
    /\ files = NoFs
    /\ req_path = <<>>
    /\ content_resp = <<>>
    /\ startup = "loading"
    /\ chat_engine = "unset"
    /\ engine_calls = 0
    /\ chat_log = <<>>
    /\ data_dir = None
    /\ chroma_db = None
    /\ last_run = None

NextTree ==
    \/ MakeDir /\ UNCHANGED <<title_vars, content_vars, chat_vars, ingest_vars>>
    \/ WriteFile /\ UNCHANGED <<title_vars, content_vars, chat_vars, ingest_vars>>
    \/ MakeUnlistable /\ UNCHANGED <<title_vars, content_vars, chat_vars, ingest_vars>>
    \/ GetDocsStructure /\ UNCHANGED <<title_vars, content_vars, chat_vars, ingest_vars>>

SpecTree == InitTree /\ [][NextTree]_vars

(* GET /api/docs/content for every request path of the bound *)
InitGuard ==
    /\ md_file = Unreadable
    /\ title = <<>>
    /\ tree_fs = NoFs
    /\ docs_resp = <<>>
    /\ files \in { GuardFiles(b) : b \in BOOLEAN }
    /\ req_path = <<>>
    /\ content_resp = <<>>
    /\ startup = "loading"
    /\ chat_engine = "unset"
    /\ engine_calls = 0
    /\ chat_log = <<>>
    /\ data_dir = None
    /\ chroma_db = None
    /\ last_run = None

NextGuard ==
    \/ GuardRequest /\ UNCHANGED <<title_vars, tree_vars, chat_vars, ingest_vars>>

SpecGuard == InitGuard /\ [][NextGuard]_vars

(* GET /api/docs/content for every text of the bound *)
InitContent ==
    /\ md_file = Unreadable
    /\ title = <<>>
    /\ tree_fs = NoFs
    /\ docs_resp = <<>>
    /\ files \in { ContentFiles(t) : t \in Texts }
    /\ req_path = <<>>
    /\ content_resp = <<>>
    /\ startup = "loading"
    /\ chat_engine = "unset"
    /\ engine_calls = 0
    /\ chat_log = <<>>
    /\ data_dir = None
    /\ chroma_db = None
    /\ last_run = None

NextContent ==
    \/ ContentRequest /\ UNCHANGED <<title_vars, tree_vars, chat_vars, ingest_vars>>

SpecContent == InitContent /\ [][NextContent]_vars

(* the serving process: start-up, then requests in any order *)
InitChat ==
    /\ md_file = Unreadable
    /\ title = <<>>
    /\ tree_fs = NoFs
    /\ docs_resp = <<>>
    /\ files = NoFs
    /\ req_path = <<>>
    /\ content_resp = <<>>
    /\ startup = "loading"
    /\ chat_engine = "unset"
    /\ engine_calls = 0
    /\ chat_log = <<>>
    /\ data_dir = None
    /\ chroma_db = None
    /\ last_run = None

NextChat ==
    \/ LoadKnowledgeBase /\ UNCHANGED <<title_vars, tree_vars, content_vars, ingest_vars>>
    \/ LoadFails /\ UNCHANGED <<title_vars, tree_vars, content_vars, ingest_vars>>
    \/ ChatEndpoint /\ UNCHANGED <<title_vars, tree_vars, content_vars, ingest_vars>>
    \/ ReadRoot /\ UNCHANGED <<title_vars, tree_vars, content_vars, ingest_vars>>
    \/ DocsEndpoints /\ UNCHANGED <<title_vars, tree_vars, content_vars, ingest_vars>>

SpecChat == InitChat /\ [][NextChat]_vars

(* ingestion runs, ./data changing between them *)
InitIngest ==
    /\ md_file = Unreadable
    /\ title = <<>>
    /\ tree_fs = NoFs
    /\ docs_resp = <<>>
    /\ files = NoFs
    /\ req_path = <<>>
    /\ content_resp = <<>>
    /\ startup = "loading"
    /\ chat_engine = "unset"
    /\ engine_calls = 0
    /\ chat_log = <<>>
    /\ data_dir = None
    /\ chroma_db = None
    /\ last_run = None

NextIngest ==
    \/ MakeDataDir /\ UNCHANGED <<title_vars, tree_vars, content_vars, chat_vars>>
    \/ RemoveDataDir /\ UNCHANGED <<title_vars, tree_vars, content_vars, chat_vars>>
    \/ PutFile /\ UNCHANGED <<title_vars, tree_vars, content_vars, chat_vars>>
    \/ DeleteFile /\ UNCHANGED <<title_vars, tree_vars, content_vars, chat_vars>>
    \/ IngestData /\ UNCHANGED <<title_vars, tree_vars, content_vars, chat_vars>>

SpecIngest == InitIngest /\ [][NextIngest]_vars

(* the serving process is the program's state machine proper *)
Spec == SpecChat

====
